---- MODULE Spec2Model ----
(***************************************************************************)
(* Model layer of the to-do list application (src/app/models.py): the      *)
(* entities User (Account), TodoList (List) and Todolist (Item), the       *)
(* persistence facade BaseModel (save / delete / __commit) over the shared *)
(* db.session, and the validators behind the property setters.             *)
(*                                                                         *)
(* Strings are sequences of one-character strings.  An optional value      *)
(* (Python None / SQL NULL, or a value) is a sequence of length 0 or 1:    *)
(* NULL == << >>, Some(v) == << v >>.                                       *)
(*                                                                         *)
(* Every entity class has two maps: the committed table (xxxRows) and the  *)
(* Python objects alive in the current request (xxxObjs).  An object whose *)
(* id is in the table is persistent, and is dirty when its attributes      *)
(* differ from its row; an object whose id is not in the table is          *)
(* transient.  The surrogate id of a row is the index of its object.       *)
(*                                                                         *)
(* Between two calls the session holds no added and no deleted object:     *)
(* save() and delete() commit or roll back what they add or delete.  What  *)
(* it does hold are the dirty persistent objects, which every commit       *)
(* flushes together with the object of the call.                           *)
(*                                                                         *)
(* Both TodoList and Todolist declare __tablename__ "Todolist"; they are   *)
(* modelled as the two tables their relationships describe.  The columns   *)
(* no operation below reads (password_hash, member_since, created_at,      *)
(* description, creator) are left out of the records.                      *)
(***************************************************************************)
EXTENDS Naturals, Sequences, FiniteSets, TLC

VARIABLES userRows, userObjs, listRows, listObjs, itemRows, itemObjs, last

vars == <<userRows, userObjs, listRows, listObjs, itemRows, itemObjs, last>>

\* ------------------------------------------------------------------ bounds
MaxUsers == 2
MaxLists == 1
MaxItems == 2
MaxTime == 1
MaxStamp == 2
MaxBody == 2
MaxCounted == 3
MaxCountedLists == 2

UserIds == 1..MaxUsers
ListIds == 1..MaxLists
ItemIds == 1..MaxItems
Times == 1..MaxTime
Stamps == 1..MaxStamp

\* ----------------------------------------------------------------- strings
NULL == << >>
Some(v) == << v >>

Whitespace == {" ", "\n", "\t"}

\* n copies of the character c
Rep(c, n) == [i \in 1..n |-> c]

HasWhitespace(s) == \E i \in 1..Len(s) : s[i] \in Whitespace

\* \S+ against the whole of s
NonSpaceRun(s) == Len(s) >= 1 /\ ~HasWhitespace(s)

\* \S+@\S+\.\S+ against the whole of s
EmailShape(s) ==
    /\ ~HasWhitespace(s)
    /\ \E p \in 1..Len(s) : \E q \in 1..Len(s) :
          /\ s[p] = "@" /\ s[q] = "."
          /\ p >= 2 /\ q >= p + 2 /\ q <= Len(s) - 1

\* re "$" without re.MULTILINE: the end of the string, or just before a
\* newline that is the last character of the string.
BeforeDollar(s) ==
    IF Len(s) >= 1 /\ s[Len(s)] = "\n" THEN {s, SubSeq(s, 1, Len(s) - 1)} ELSE {s}

USERNAME_REGEX_match(s) == \E t \in BeforeDollar(s) : NonSpaceRun(t)

EMAIL_REGEX_match(s) == \E t \in BeforeDollar(s) : EmailShape(t)

\* the length test without the truth test
check_length_NoTruth(attribute, length) == Len(attribute) <= length

check_length(attribute, length) == Len(attribute) > 0 /\ Len(attribute) <= length

UsernameLimit == 64
EmailLimit == 64
TitleLimit == 128

UsernameAccepted(s) == check_length(s, UsernameLimit) /\ USERNAME_REGEX_match(s)

EmailAccepted(s) == check_length(s, EmailLimit) /\ EMAIL_REGEX_match(s)

TitleAccepted(s) == check_length(s, TitleLimit)

Untitled == <<"u", "n", "t", "i", "t", "l", "e", "d">>

\* ------------------------------------------------------------------- state
Kinds == {"user", "list", "item"}

Ids(kind) == CASE kind = "user" -> UserIds [] kind = "list" -> ListIds [] OTHER -> ItemIds

Objs(kind) == CASE kind = "user" -> userObjs [] kind = "list" -> listObjs [] OTHER -> itemObjs

Rows(kind) == CASE kind = "user" -> userRows [] kind = "list" -> listRows [] OTHER -> itemRows

Call(op, kind, id) == [op |-> op, kind |-> kind, id |-> id]

Returned(call, result) ==
    [op |-> call.op, kind |-> call.kind, id |-> call.id, result |-> result]

Init ==
    /\ userRows = << >>
    /\ userObjs = << >>
    /\ listRows = << >>
    /\ listObjs = << >>
    /\ itemRows = << >>
    /\ itemObjs = << >>
    /\ last = Returned(Call("init", "none", 0), "ok")

Without(f, k) == [x \in DOMAIN f \ {k} |-> f[x]]

With(f, k, v) == [x \in DOMAIN f \cup {k} |-> IF x = k THEN v ELSE f[x]]

\* the index a newly constructed object gets: the least one not in use
FreeIds(ids, objs, rows) == ids \ (DOMAIN objs \cup DOMAIN rows)

NewId(ids, objs, rows) ==
    CHOOSE k \in FreeIds(ids, objs, rows) : \A j \in FreeIds(ids, objs, rows) : k <= j

\* ---------------------------------------------------------- column defaults
\* an INSERT that writes the default over the value the object has
UserInsertRow_ForcesDefault(u, t) ==
    [u EXCEPT !.is_admin = Some(FALSE),
              !.last_seen = IF u.last_seen = NULL THEN Some(t) ELSE u.last_seen]

\* is_admin default=False, last_seen default=utcnow, applied by the INSERT
UserInsertRow(u, t) ==
    [u EXCEPT !.is_admin = IF u.is_admin = NULL THEN Some(FALSE) ELSE u.is_admin,
              !.last_seen = IF u.last_seen = NULL THEN Some(t) ELSE u.last_seen]

ListInsertRow(l) == l

\* an INSERT that writes the Item as it is, without the column default
ItemInsertRow_NoDefault(i) == i

\* is_finished default=False, finished_at default=None, applied by the INSERT
ItemInsertRow(i) ==
    [i EXCEPT !.is_finished = IF i.is_finished = NULL THEN Some(FALSE) ELSE i.is_finished]

InsertRow(kind, obj) == IF kind = "list" THEN ListInsertRow(obj) ELSE ItemInsertRow(obj)

\* ------------------------------------------------------------ unit of work
Target(kind, id) == Some([kind |-> kind, id |-> id])

Is(target, kind) == target # NULL /\ target[1].kind = kind

\* columns declared without unique=True
UniqueViolation_None(T, k, r) == FALSE

\* The UNIQUE constraints of user.username and user.email: row r, stored
\* under id k, collides with another row of table T.  NULLs never collide.
UniqueViolation(T, k, r) ==
    \E j \in DOMAIN T \ {k} :
        \/ r.username # NULL /\ T[j].username = r.username
        \/ r.email # NULL /\ T[j].email = r.email

Flushed(ok, tab) == [ok |-> ok, tab |-> tab]

\* UPDATE of every dirty persistent User that is not being deleted, in
\* primary-key order; the first statement that violates a constraint aborts.
RECURSIVE FlushUserUpdates(_, _, _, _)
FlushUserUpdates(objs, T, del, k) ==
    IF k > MaxUsers THEN Flushed(TRUE, T)
    ELSE IF /\ k \in DOMAIN T /\ k \in DOMAIN objs /\ objs[k] # T[k]
            /\ ~(Is(del, "user") /\ del[1].id = k)
         THEN IF UniqueViolation(T, k, objs[k]) THEN Flushed(FALSE, T)
              ELSE FlushUserUpdates(objs, [T EXCEPT ![k] = objs[k]], del, k + 1)
         ELSE FlushUserUpdates(objs, T, del, k + 1)

\* INSERT of the added User when it is not yet persistent.
FlushUserInsert(objs, T, add, t) ==
    IF ~Is(add, "user") \/ add[1].id \in DOMAIN T
    THEN Flushed(TRUE, T)
    ELSE LET r == UserInsertRow(objs[add[1].id], t) IN
         IF UniqueViolation(T, add[1].id, r) THEN Flushed(FALSE, T)
         ELSE Flushed(TRUE, With(T, add[1].id, r))

FlushUserDelete(T, del) == IF Is(del, "user") THEN Without(T, del[1].id) ELSE T

\* The user table after the flush of a commit: UPDATEs, then the INSERT,
\* then the DELETE.
FlushUsers(objs, T, add, del, t) ==
    LET u == FlushUserUpdates(objs, T, del, 1) IN
    IF ~u.ok THEN u
    ELSE LET i == FlushUserInsert(objs, u.tab, add, t) IN
         IF ~i.ok THEN i ELSE Flushed(TRUE, FlushUserDelete(i.tab, del))

\* The tables without constraints (no UNIQUE column; the SQLite store of
\* config.py does not enforce the declared foreign keys): dirty rows updated,
\* the added object inserted with its column defaults, the deleted row removed.
FlushPlain(kind, objs, T, add, del) ==
    LET upd == [k \in DOMAIN T |-> IF k \in DOMAIN objs THEN objs[k] ELSE T[k]]
        ins == IF Is(add, kind) /\ add[1].id \notin DOMAIN T
               THEN With(upd, add[1].id, InsertRow(kind, objs[add[1].id]))
               ELSE upd
    IN  IF Is(del, kind) THEN Without(ins, del[1].id) ELSE ins

\* The objects of the request after a successful commit: a persistent
\* object reads its row, a deleted one is gone, a transient one is as it was.
AfterCommit(kind, objs, T, del) ==
    LET keep == IF Is(del, kind) THEN DOMAIN objs \ {del[1].id} ELSE DOMAIN objs
    IN  [k \in keep |-> IF k \in DOMAIN T THEN T[k] ELSE objs[k]]

\* session.rollback(): every persistent object is expired and reads its
\* committed row again; an added object is expunged and stays transient
\* with the attributes it has.
AfterRollback(objs, T) ==
    [k \in DOMAIN objs |-> IF k \in DOMAIN T THEN T[k] ELSE objs[k]]

\* A commit whose failure is swallowed without the rollback: what was flushed
\* of the other tables stays written.
Commit_NoRollback(call, uo, lo, io, add, del, t) ==
    LET fu == FlushUsers(uo, userRows, add, del, t)
        fl == FlushPlain("list", lo, listRows, add, del)
        fi == FlushPlain("item", io, itemRows, add, del)
    IN  /\ userRows' = IF fu.ok THEN fu.tab ELSE userRows
        /\ listRows' = fl
        /\ itemRows' = fi
        /\ userObjs' = AfterCommit("user", uo, userRows', del)
        /\ listObjs' = AfterCommit("list", lo, fl, del)
        /\ itemObjs' = AfterCommit("item", io, fi, del)
        /\ last' = Returned(call, IF fu.ok THEN "committed" ELSE "rolledback")

\* BaseModel.__commit after session.add / session.delete: uo, lo, io are the
\* objects as the calling method left them.
Commit(call, uo, lo, io, add, del, t) ==
    LET fu == FlushUsers(uo, userRows, add, del, t)
        fl == FlushPlain("list", lo, listRows, add, del)
        fi == FlushPlain("item", io, itemRows, add, del)
    IN  IF fu.ok
        THEN /\ userRows' = fu.tab
             /\ listRows' = fl
             /\ itemRows' = fi
             /\ userObjs' = AfterCommit("user", uo, fu.tab, del)
             /\ listObjs' = AfterCommit("list", lo, fl, del)
             /\ itemObjs' = AfterCommit("item", io, fi, del)
             /\ last' = Returned(call, "committed")
        ELSE /\ UNCHANGED <<userRows, listRows, itemRows>>
             /\ userObjs' = AfterRollback(uo, userRows)
             /\ listObjs' = AfterRollback(lo, listRows)
             /\ itemObjs' = AfterRollback(io, itemRows)
             /\ last' = Returned(call, "rolledback")

Raise(call) ==
    /\ last' = Returned(call, "raised")
    /\ UNCHANGED <<userRows, userObjs, listRows, listObjs, itemRows, itemObjs>>

\* ---------------------------------------------------------------- BaseModel
save(kind, id, t) ==
    /\ id \in DOMAIN Objs(kind)
    /\ Commit(Call("save", kind, id), userObjs, listObjs, itemObjs,
              Target(kind, id), NULL, t)

\* session.delete() of an object that is not persistent raises.
delete(kind, id, t) ==
    /\ id \in DOMAIN Objs(kind)
    /\ IF id \notin DOMAIN Rows(kind)
       THEN Raise(Call("delete", kind, id))
       ELSE Commit(Call("delete", kind, id), userObjs, listObjs, itemObjs,
                   NULL, Target(kind, id), t)

\* -------------------------------------------------------------------- User
NewUser(ids, un, em) ==
    /\ FreeIds(ids, userObjs, userRows) # {}
    /\ LET o == NewId(ids, userObjs, userRows) IN
       IF \/ un # NULL /\ ~UsernameAccepted(un[1])
          \/ em # NULL /\ ~EmailAccepted(em[1])
       THEN Raise(Call("new", "user", o))
       ELSE /\ userObjs' = With(userObjs, o,
                   [username |-> un, email |-> em,
                    is_admin |-> NULL, last_seen |-> NULL])
            /\ last' = Returned(Call("new", "user", o), "ok")
            /\ UNCHANGED <<userRows, listRows, listObjs, itemRows, itemObjs>>

SetUsername(o, username) ==
    /\ o \in DOMAIN userObjs
    /\ IF ~UsernameAccepted(username)
       THEN Raise(Call("set_username", "user", o))
       ELSE /\ userObjs' = [userObjs EXCEPT ![o].username = Some(username)]
            /\ last' = Returned(Call("set_username", "user", o), "ok")
            /\ UNCHANGED <<userRows, listRows, listObjs, itemRows, itemObjs>>

SetEmail(o, email) ==
    /\ o \in DOMAIN userObjs
    /\ IF ~EmailAccepted(email)
       THEN Raise(Call("set_email", "user", o))
       ELSE /\ userObjs' = [userObjs EXCEPT ![o].email = Some(email)]
            /\ last' = Returned(Call("set_email", "user", o), "ok")
            /\ UNCHANGED <<userRows, listRows, listObjs, itemRows, itemObjs>>

seen(o, t) ==
    /\ o \in DOMAIN userObjs
    /\ Commit(Call("seen", "user", o),
              [userObjs EXCEPT ![o].last_seen = Some(t)], listObjs, itemObjs,
              Target("user", o), NULL, t)

promote_to_admin(o, t) ==
    /\ o \in DOMAIN userObjs
    /\ Commit(Call("promote_to_admin", "user", o),
              [userObjs EXCEPT ![o].is_admin = Some(TRUE)], listObjs, itemObjs,
              Target("user", o), NULL, t)

\* ---------------------------------------------------------------- TodoList
\* title or "untitled"
TitleOrDefault(title) ==
    IF title = NULL \/ title[1] = << >> THEN Untitled ELSE title[1]

NewList(ids, title) ==
    /\ FreeIds(ids, listObjs, listRows) # {}
    /\ LET l == NewId(ids, listObjs, listRows) IN
       IF ~TitleAccepted(TitleOrDefault(title))
       THEN Raise(Call("new", "list", l))
       ELSE /\ listObjs' = With(listObjs, l, [title |-> Some(TitleOrDefault(title))])
            /\ last' = Returned(Call("new", "list", l), "ok")
            /\ UNCHANGED <<userRows, userObjs, listRows, itemRows, itemObjs>>

SetTitle(l, title) ==
    /\ l \in DOMAIN listObjs
    /\ IF ~TitleAccepted(title)
       THEN Raise(Call("set_title", "list", l))
       ELSE /\ listObjs' = [listObjs EXCEPT ![l].title = Some(title)]
            /\ last' = Returned(Call("set_title", "list", l), "ok")
            /\ UNCHANGED <<userRows, userObjs, listRows, itemRows, itemObjs>>

\* the rows a count query of list l sees
todos(l) == {i \in DOMAIN itemRows : itemRows[i].Todolist_id = l}

todo_count(l) == Cardinality(todos(l))

finished_count(l) == Cardinality({i \in todos(l) : itemRows[i].is_finished = Some(TRUE)})

open_count(l) == Cardinality({i \in todos(l) : itemRows[i].is_finished = Some(FALSE)})

\* -------------------------------------------------------------- Todolist item
NewItemObject(Todolist_id) ==
    [is_finished |-> NULL, finished_at |-> NULL, Todolist_id |-> Todolist_id]

NewItem(ids, Todolist_id) ==
    /\ FreeIds(ids, itemObjs, itemRows) # {}
    /\ LET i == NewId(ids, itemObjs, itemRows) IN
       /\ itemObjs' = With(itemObjs, i, NewItemObject(Todolist_id))
       /\ last' = Returned(Call("new", "item", i), "ok")
       /\ UNCHANGED <<userRows, userObjs, listRows, listObjs, itemRows>>

\* Todolist.from_dict: cls(**model_dict).save()
from_dict(ids, Todolist_id, t) ==
    /\ FreeIds(ids, itemObjs, itemRows) # {}
    /\ LET i == NewId(ids, itemObjs, itemRows) IN
       Commit(Call("from_dict", "item", i), userObjs, listObjs,
              With(itemObjs, i, NewItemObject(Todolist_id)),
              Target("item", i), NULL, t)

status(item) == IF item.is_finished = Some(TRUE) THEN "finished" ELSE "open"

\* finished() that sets the attributes and does not save
finished_NoSave(i, t) ==
    /\ i \in DOMAIN itemObjs
    /\ itemObjs' = [itemObjs EXCEPT ![i].is_finished = Some(TRUE), ![i].finished_at = Some(t)]
    /\ last' = Returned(Call("finished", "item", i), "committed")
    /\ UNCHANGED <<userRows, userObjs, listRows, listObjs, itemRows>>

\* finished() that stamps the time and leaves the flag alone
finished_NoFlag(i, t) ==
    /\ i \in DOMAIN itemObjs
    /\ Commit(Call("finished", "item", i), userObjs, listObjs,
              [itemObjs EXCEPT ![i].finished_at = Some(t)],
              Target("item", i), NULL, t)

finished(i, t) ==
    /\ i \in DOMAIN itemObjs
    /\ Commit(Call("finished", "item", i), userObjs, listObjs,
              [itemObjs EXCEPT ![i].is_finished = Some(TRUE), ![i].finished_at = Some(t)],
              Target("item", i), NULL, t)

\* reopen() that clears the flag and keeps the timestamp
reopen_KeepsTimestamp(i, t) ==
    /\ i \in DOMAIN itemObjs
    /\ Commit(Call("reopen", "item", i), userObjs, listObjs,
              [itemObjs EXCEPT ![i].is_finished = Some(FALSE)],
              Target("item", i), NULL, t)

reopen(i, t) ==
    /\ i \in DOMAIN itemObjs
    /\ Commit(Call("reopen", "item", i), userObjs, listObjs,
              [itemObjs EXCEPT ![i].is_finished = Some(FALSE), ![i].finished_at = NULL],
              Target("item", i), NULL, t)

\* ------------------------------------------------------------ request end
\* SQLALCHEMY_COMMIT_ON_TEARDOWN: the session is committed when the request
\* ends (an IntegrityError is not caught here and the transaction is lost),
\* then removed: the next request reads every object from its row, and the
\* objects that were never stored are gone.
Teardown(t) ==
    LET fu == FlushUsers(userObjs, userRows, NULL, NULL, t)
        fl == FlushPlain("list", listObjs, listRows, NULL, NULL)
        fi == FlushPlain("item", itemObjs, itemRows, NULL, NULL)
    IN  /\ userRows' = IF fu.ok THEN fu.tab ELSE userRows
        /\ listRows' = IF fu.ok THEN fl ELSE listRows
        /\ itemRows' = IF fu.ok THEN fi ELSE itemRows
        /\ userObjs' = userRows'
        /\ listObjs' = listRows'
        /\ itemObjs' = itemRows'
        /\ last' = Returned(Call("teardown", "none", 0),
                            IF fu.ok THEN "committed" ELSE "raised")

\* ------------------------------------------------------------------ inputs
HandleA == <<"a">>
HandleB == <<"b">>
EmailA == <<"a", "@", "b", ".", "c">>
EmailB == <<"b", "@", "b", ".", "c">>

Opt(S) == {NULL} \cup {Some(s) : s \in S}

MainHandles == {HandleA, HandleB}

MainTitles == {<<"t">>, << >>, Rep("y", 129)}

\* ---------------------------- the session shared by the three entities
Next ==
    \/ \E h \in MainHandles : NewUser(UserIds, Some(h), NULL)
    \/ \E o \in UserIds, h \in MainHandles : SetUsername(o, h)
    \/ \E title \in Opt(MainTitles) : NewList(ListIds, title)
    \/ \E l \in ListIds, title \in MainTitles : SetTitle(l, title)
    \/ \E l \in ListIds : NewItem(ItemIds, l)
    \/ \E l \in ListIds, t \in Times : from_dict(ItemIds, l, t)
    \/ \E kind \in Kinds : \E id \in Ids(kind), t \in Times : save(kind, id, t)
    \/ \E kind \in Kinds : \E id \in Ids(kind), t \in Times : delete(kind, id, t)
    \/ \E t \in Times : Teardown(t)

Spec == Init /\ [][Next]_vars

\* ------------------- the Items and their transitions, beside the Accounts
NextItems ==
    \/ \E h \in MainHandles : NewUser(UserIds, Some(h), NULL)
    \/ \E o \in UserIds, h \in MainHandles : SetUsername(o, h)
    \/ \E o \in UserIds, t \in Times : save("user", o, t)
    \/ \E l \in ListIds : NewItem(ItemIds, l)
    \/ \E l \in ListIds, t \in Times : from_dict(ItemIds, l, t)
    \/ \E i \in ItemIds, t \in Stamps : finished(i, t)
    \/ \E i \in ItemIds, t \in Stamps : reopen(i, t)
    \/ \E i \in ItemIds, t \in Times : save("item", i, t)
    \/ \E i \in ItemIds, t \in Times : delete("item", i, t)
    \/ \E t \in Times : Teardown(t)

SpecItems == Init /\ [][NextItems]_vars

\* ------------------------------------------------- the accounts alone
MainEmails == {EmailA, EmailB}

NextAccounts ==
    \/ \E un \in Opt(MainHandles), em \in Opt(MainEmails) : NewUser(UserIds, un, em)
    \/ \E o \in UserIds, h \in MainHandles : SetUsername(o, h)
    \/ \E o \in UserIds, e \in MainEmails : SetEmail(o, e)
    \/ \E o \in UserIds, t \in Times : save("user", o, t)
    \/ \E o \in UserIds, t \in Times : delete("user", o, t)
    \/ \E t \in Times : Teardown(t)

SpecAccounts == Init /\ [][NextAccounts]_vars

\* ------------------------------------- the accounts and their privilege
NextPrivilege ==
    \/ \E h \in MainHandles : NewUser(UserIds, Some(h), NULL)
    \/ \E o \in UserIds, h \in MainHandles : SetUsername(o, h)
    \/ \E o \in UserIds, t \in Times : seen(o, t)
    \/ \E o \in UserIds, t \in Times : promote_to_admin(o, t)
    \/ \E o \in UserIds, t \in Times : save("user", o, t)
    \/ \E o \in UserIds, t \in Times : delete("user", o, t)
    \/ \E title \in Opt({<<"t">>}) : NewList(ListIds, title)
    \/ \E l \in ListIds, t \in Times : save("list", l, t)
    \/ \E t \in Times : Teardown(t)

SpecPrivilege == Init /\ [][NextPrivilege]_vars

\* ------------------------------ the validators, over a wide set of strings
BodyChars == {"a", " ", "\n"}

Bodies == UNION {[1..n -> BodyChars] : n \in 0..MaxBody}

\* every body, alone and after 62, 63 and 64 other characters
WideHandles ==
    {Rep("x", n) \o b :
        n \in {0, UsernameLimit - 2, UsernameLimit - 1, UsernameLimit}, b \in Bodies}

WideEmails ==
    {EmailA, <<"a", "@", "b">>, <<"@", "b", ".", "c">>, <<"a", "@", ".", "c">>,
     <<"a", "@", "b", ".">>, <<"a", " ", "@", "b", ".", "c">>,
     EmailA \o <<"\n">>, << >>,
     Rep("x", EmailLimit - 4) \o <<"@", "b", ".", "c">>,
     Rep("x", EmailLimit - 3) \o <<"@", "b", ".", "c">>}

WideTitles ==
    {<< >>, <<"t">>, <<" ">>, Rep("y", TitleLimit - 1), Rep("y", TitleLimit),
     Rep("y", TitleLimit + 1)}

One == {1}

NextValidation ==
    \/ \E un \in Opt(WideHandles), em \in Opt(WideEmails) : NewUser(One, un, em)
    \/ \E o \in One, h \in WideHandles : SetUsername(o, h)
    \/ \E o \in One, e \in WideEmails : SetEmail(o, e)
    \/ \E title \in Opt(WideTitles) : NewList(One, title)
    \/ \E l \in One, title \in WideTitles : SetTitle(l, title)
    \/ \E l \in One, t \in Times : save("list", l, t)
    \/ \E t \in Times : Teardown(t)

SpecValidation == Init /\ [][NextValidation]_vars

\* ------------------------------------- the Items of a List and its counts
CountedIds == 1..MaxCounted

CountedLists == 1..MaxCountedLists

NextCounts ==
    \/ NewList(CountedLists, NULL)
    \/ \E l \in CountedLists, t \in Times : save("list", l, t)
    \/ \E l \in CountedLists : NewItem(CountedIds, l)
    \/ \E l \in CountedLists, t \in Times : from_dict(CountedIds, l, t)
    \/ \E i \in CountedIds, t \in Times : finished(i, t)
    \/ \E i \in CountedIds, t \in Times : reopen(i, t)
    \/ \E i \in CountedIds, t \in Times : save("item", i, t)
    \/ \E i \in CountedIds, t \in Times : delete("item", i, t)
    \/ \E t \in Times : Teardown(t)

SpecCounts == Init /\ [][NextCounts]_vars

\* =================================================================== claims

\* -------------------------------------------------------------------- C1
ItemConsistent(item) ==
    /\ status(item) = "finished" => item.finished_at # NULL
    /\ status(item) = "open" => item.finished_at = NULL

\* C1: every Item, as an object and as a stored row, has is_finished and
\* finished_at consistent: a finished Item has finished_at set, an open Item
\* has finished_at null.
C1_FinishedAtConsistent ==
    /\ \A i \in DOMAIN itemObjs : ItemConsistent(itemObjs[i])
    /\ \A i \in DOMAIN itemRows : ItemConsistent(itemRows[i])

\* reopen() of a stored, finished Item has just committed while another
\* stored Item is finished and carries its timestamp.
C1_Witness ==
    /\ last.op = "reopen" /\ last.result = "committed"
    /\ last.id \in DOMAIN itemRows
    /\ itemRows[last.id].is_finished = Some(FALSE)
    /\ itemRows[last.id].finished_at = NULL
    /\ \E j \in DOMAIN itemRows :
          j # last.id /\ status(itemRows[j]) = "finished" /\ itemRows[j].finished_at # NULL

\* -------------------------------------------------------------------- C5
StartsOpen ==
    \A l \in ListIds :
        NewItem(ItemIds, l) \/ (\E t \in Times : from_dict(ItemIds, l, t)) =>
            status(itemObjs'[last'.id]) = "open" /\ itemObjs'[last'.id].finished_at = NULL

\* C5 as claimed: an Item starts open; finished() from either state leaves
\* the Item with status "finished" and a non-null finished_at, reopen() from
\* either state leaves it with status "open" and finished_at null.
C5_LastCallDecides ==
    [][/\ StartsOpen
       /\ \A i \in ItemIds, t \in Stamps :
            /\ finished(i, t) =>
                 status(itemObjs'[i]) = "finished" /\ itemObjs'[i].finished_at # NULL
            /\ reopen(i, t) =>
                 status(itemObjs'[i]) = "open" /\ itemObjs'[i].finished_at = NULL]_vars

\* the commit of the call was rolled back and the Item is a stored one
RevertedByRollback(i) == last'.result = "rolledback" /\ i \in DOMAIN itemRows

\* C5 amended: an Item starts open; finished() leaves the Item with status
\* "finished" and a non-null finished_at, and reopen() leaves it with status
\* "open" and finished_at null, from either state, except when the commit of
\* the call is rolled back and the Item is a stored one: then the Item reads
\* its stored row again and has the status it had in the store.
C5_LastCommittedCallDecides ==
    [][/\ StartsOpen
       /\ \A i \in ItemIds, t \in Stamps :
            /\ finished(i, t) =>
                 IF RevertedByRollback(i) THEN itemObjs'[i] = itemRows[i]
                 ELSE status(itemObjs'[i]) = "finished" /\ itemObjs'[i].finished_at # NULL
            /\ reopen(i, t) =>
                 IF RevertedByRollback(i) THEN itemObjs'[i] = itemRows[i]
                 ELSE status(itemObjs'[i]) = "open" /\ itemObjs'[i].finished_at = NULL]_vars

\* finished() was called on a stored open Item, its commit was rolled back,
\* and the Item is open as before.
C5_Witness ==
    /\ last.op = "finished" /\ last.result = "rolledback"
    /\ last.id \in DOMAIN itemRows
    /\ status(itemObjs[last.id]) = "open"

\* -------------------------------------------------------------------- C9
\* C9 as claimed: when finished() or reopen() returns, the Item's stored row
\* carries the new is_finished and finished_at, whatever else is pending in
\* the session.
C9_AlwaysPersisted ==
    [][\A i \in ItemIds, t \in Stamps :
         /\ finished(i, t) =>
              /\ i \in DOMAIN itemRows'
              /\ itemRows'[i].is_finished = Some(TRUE)
              /\ itemRows'[i].finished_at = Some(t)
         /\ reopen(i, t) =>
              /\ i \in DOMAIN itemRows'
              /\ itemRows'[i].is_finished = Some(FALSE)
              /\ itemRows'[i].finished_at = NULL]_vars

\* C9 amended: finished() and reopen() commit the shared session at once and
\* without looking at the Item's state: when the call returns and no pending
\* change of the session violated a uniqueness constraint, the Item's stored
\* row carries the new is_finished and finished_at; when one did, the commit
\* was rolled back and the store is what it was before the call.
C9_PersistedUnlessRolledBack ==
    [][\A i \in ItemIds, t \in Stamps :
         /\ finished(i, t) =>
              IF FlushUsers(userObjs, userRows, NULL, NULL, t).ok
              THEN /\ i \in DOMAIN itemRows'
                   /\ itemRows'[i].is_finished = Some(TRUE)
                   /\ itemRows'[i].finished_at = Some(t)
              ELSE UNCHANGED <<userRows, listRows, itemRows>>
         /\ reopen(i, t) =>
              IF FlushUsers(userObjs, userRows, NULL, NULL, t).ok
              THEN /\ i \in DOMAIN itemRows'
                   /\ itemRows'[i].is_finished = Some(FALSE)
                   /\ itemRows'[i].finished_at = NULL
              ELSE UNCHANGED <<userRows, listRows, itemRows>>]_vars

\* finished() has just committed on one stored Item, whose row carries the
\* second stamp, beside another finished Item that carries the first.
C9_Witness ==
    /\ last.op = "finished" /\ last.result = "committed"
    /\ last.id \in DOMAIN itemRows
    /\ itemRows[last.id].is_finished = Some(TRUE)
    /\ itemRows[last.id].finished_at = Some(2)
    /\ \E j \in DOMAIN itemRows : itemRows[j].finished_at = Some(1)

\* -------------------------------------------------------------------- C3
StoredFor(l) == {i \in DOMAIN itemRows : itemRows[i].Todolist_id = l}

\* C3: for every List, total_count is the number of Items stored for the
\* List, finished_count the number of those that are finished, open_count the
\* number of those that are not, and total_count = finished_count + open_count.
C3_CountsAgree ==
    \A l \in CountedLists :
        /\ todo_count(l) = Cardinality(StoredFor(l))
        /\ finished_count(l) =
              Cardinality({i \in StoredFor(l) : status(itemRows[i]) = "finished"})
        /\ open_count(l) =
              Cardinality({i \in StoredFor(l) : status(itemRows[i]) = "open"})
        /\ todo_count(l) = finished_count(l) + open_count(l)

\* a stored List with 3 stored Items of which 1 is finished: 3, 1, 2, a
\* reopen() having just committed
C3_Witness ==
    /\ last.op = "reopen" /\ last.result = "committed"
    /\ \E l \in DOMAIN listRows :
          todo_count(l) = 3 /\ finished_count(l) = 1 /\ open_count(l) = 2

\* -------------------------------------------------------------------- C7
\* C7: every Item that is created and saved has a list_id that refers to a
\* List stored at the time the Item is created.
C7_ListStoredAtCreation ==
    [][\A l \in ListIds, t \in Times :
          from_dict(ItemIds, l, t) /\ last'.result = "committed"
              => l \in DOMAIN listRows]_vars

\* ------------------------------------------------------------------- C10
Persistent(kind) == DOMAIN Objs(kind) \cap DOMAIN Rows(kind)

\* every pending change of the session is in the store after the step
AllWritten(add, del) ==
    /\ \A kind \in Kinds : \A k \in Persistent(kind) :
          IF Is(del, kind) /\ del[1].id = k
          THEN k \notin DOMAIN Rows(kind)'
          ELSE k \in DOMAIN Rows(kind)' /\ Rows(kind)'[k] = Objs(kind)[k]
    /\ add # NULL => add[1].id \in DOMAIN Rows(add[1].kind)'

Atomic(add, del, t) ==
    IF FlushUsers(userObjs, userRows, add, del, t).ok
    THEN last'.result = "committed" /\ AllWritten(add, del)
    ELSE last'.result = "rolledback" /\ UNCHANGED <<userRows, listRows, itemRows>>

\* C10: save() and delete() commit the whole session atomically: when the
\* commit hits a uniqueness violation the store is what it was before the
\* call and the call returns without raising; when it does not, every
\* pending change of the session is committed together.
C10_CommitIsAtomic ==
    [][\A kind \in Kinds : \A id \in Ids(kind), t \in Times :
         /\ save(kind, id, t) => Atomic(Target(kind, id), NULL, t)
         /\ delete(kind, id, t) /\ id \in DOMAIN Rows(kind)
               => Atomic(NULL, Target(kind, id), t)]_vars

\* delete() of a stored Item was rolled back: the Item is still stored,
\* beside a stored List and two stored Accounts.
C10_Witness ==
    /\ last.op = "delete" /\ last.kind = "item" /\ last.result = "rolledback"
    /\ last.id \in DOMAIN itemRows
    /\ listRows # << >>
    /\ Cardinality(DOMAIN userRows) = 2

\* -------------------------------------------------------------------- C6
TitleValid ==
    /\ \A l \in DOMAIN listObjs :
          listObjs[l].title # NULL /\ Len(listObjs[l].title[1]) \in 1..TitleLimit
    /\ \A l \in DOMAIN listRows :
          listRows[l].title # NULL /\ Len(listRows[l].title[1]) \in 1..TitleLimit

Rejected == last'.result = "raised" /\ UNCHANGED <<listObjs, listRows>>

TooLong(title) == Len(title) > TitleLimit

\* C6 as claimed: every List's title is non-empty and at most 128 characters;
\* a List created with no title is titled "untitled"; creating a List with,
\* or reassigning its title to, an empty string or a string longer than 128
\* characters fails with a validation error and leaves the title unchanged.
C6_TitleValidated ==
    [][/\ TitleValid'
       /\ NewList(One, NULL) => listObjs'[last'.id].title = Some(Untitled)
       /\ \A title \in WideTitles :
            /\ NewList(One, Some(title)) /\ (title = << >> \/ TooLong(title)) => Rejected
            /\ \A l \in One :
                 SetTitle(l, title) /\ (title = << >> \/ TooLong(title)) => Rejected]_vars

\* C6 amended: every List's title is non-empty and at most 128 characters; a
\* List created with no title or with the empty string as title is titled
\* "untitled"; creating a List with a string longer than 128 characters, or
\* reassigning its title to an empty string or a string longer than 128
\* characters, fails with a validation error and leaves the title unchanged.
C6_TitleValidatedEmptyDefaults ==
    [][/\ TitleValid'
       /\ NewList(One, NULL) => listObjs'[last'.id].title = Some(Untitled)
       /\ NewList(One, Some(<< >>)) => listObjs'[last'.id].title = Some(Untitled)
       /\ \A title \in WideTitles :
            /\ NewList(One, Some(title)) /\ TooLong(title) => Rejected
            /\ \A l \in One :
                 SetTitle(l, title) /\ (title = << >> \/ TooLong(title)) => Rejected]_vars

\* a stored List titled with 128 characters has just refused a new title
C6_Witness ==
    /\ last.op = "set_title" /\ last.result = "raised"
    /\ last.id \in DOMAIN listRows
    /\ listObjs[last.id].title = Some(Rep("y", TitleLimit))

\* -------------------------------------------------------------------- C4
\* C4: assigning as handle a string that contains a whitespace character
\* (a trailing newline included) or is longer than 64 characters fails with
\* a validation error and leaves the Account's handle unchanged.
C4_InvalidHandleRejected ==
    [][\A o \in One, s \in WideHandles :
          SetUsername(o, s) /\ (HasWhitespace(s) \/ Len(s) > UsernameLimit)
              => last'.result = "raised" /\ userObjs' = userObjs]_vars

\* -------------------------------------------------------------------- C2
Shared(r1, r2) ==
    \/ r1.username # NULL /\ r1.username = r2.username
    \/ r1.email # NULL /\ r1.email = r2.email

NoSharing == \A j \in DOMAIN userRows : \A k \in DOMAIN userRows \ {j} :
                 ~Shared(userRows[j], userRows[k])

HandleStored(o) ==
    /\ userObjs[o].username # NULL
    /\ \E j \in DOMAIN userRows : userRows[j].username = userObjs[o].username

\* C2: no two stored Accounts share a handle or a contact_address (an
\* Account created without one has none to share); and when an Account that
\* is not stored is saved with a handle that is stored, save() returns
\* without raising and exactly one row has that handle afterward.
C2_HandlesUnique ==
    [][/\ NoSharing'
       /\ \A o \in UserIds, t \in Times :
            save("user", o, t) /\ o \notin DOMAIN userRows /\ HandleStored(o)
               => /\ last'.result # "raised"
                  /\ Cardinality({j \in DOMAIN userRows' :
                        userRows'[j].username = userObjs[o].username}) = 1]_vars

\* the save() of a second Account with a stored handle was rolled back: the
\* Account is not stored, and another one has the handle.
C2_Witness ==
    /\ last.op = "save" /\ last.kind = "user" /\ last.result = "rolledback"
    /\ last.id \in DOMAIN userObjs \ DOMAIN userRows
    /\ HandleStored(last.id)

\* -------------------------------------------------------------------- C8
OneWay ==
    \A o \in DOMAIN userRows \cap DOMAIN userRows' :
        userRows[o].is_admin = Some(TRUE) => userRows'[o].is_admin = Some(TRUE)

\* C8 as claimed: promote_to_admin() sets the privileged flag and persists
\* it, and a stored privileged flag that is true never becomes false.
C8_PromotePersistsOneWay ==
    [][/\ OneWay
       /\ \A o \in UserIds, t \in Times :
            promote_to_admin(o, t) =>
                o \in DOMAIN userRows' /\ userRows'[o].is_admin = Some(TRUE)]_vars

\* C8 amended: promote_to_admin() sets the privileged flag and commits the
\* session: the flag is stored as true unless a pending change of the session
\* violates a uniqueness constraint, in which case the commit is rolled back
\* and the store is unchanged; and a stored privileged flag that is true
\* never becomes false.
C8_PromoteCommitsOneWay ==
    [][/\ OneWay
       /\ \A o \in UserIds, t \in Times :
            promote_to_admin(o, t) =>
                IF FlushUsers([userObjs EXCEPT ![o].is_admin = Some(TRUE)], userRows,
                              Target("user", o), NULL, t).ok
                THEN o \in DOMAIN userRows' /\ userRows'[o].is_admin = Some(TRUE)
                ELSE UNCHANGED <<userRows, listRows, itemRows>>]_vars

\* seen() has just committed on a stored privileged Account, and the Account
\* is still privileged.
C8_Witness ==
    /\ last.op = "seen" /\ last.result = "committed"
    /\ last.id \in DOMAIN userRows
    /\ userRows[last.id].is_admin = Some(TRUE)
====
